---- MODULE Spec2Model ----
(***************************************************************************)
(* A model of the hydrological core of the terraform repository:           *)
(*   - terrain/RainFlow.py : the rain mesh (setup, cycle elimination and   *)
(*     the two-phase stepping),                                            *)
(*   - model/model.py      : the simulation stepper (Model),               *)
(*   - terrain/Object.py   : River.construct_directed_graph.               *)
(* Quantities of water are fixed-point numbers: the real value v is held   *)
(* as the integer v * Unit, so that the products with the flow matrix,     *)
(* whose entries are multiples of 1/FDen, stay exact.                      *)
(***************************************************************************)
EXTENDS Integers, Sequences, FiniteSets, TLC

(***************************************************************************)
(* Bounds of the model.                                                    *)
(***************************************************************************)
MeshCells == 3        \* lattice points overlaid on the terrain
MeshRows == 2         \* lattice points per column (the y values)
MaxInstances == 2     \* RainFlow objects built in one process
MaxSteps == 2         \* largest steps argument passed to simulate
MaxIterations == 2    \* update_river_state loop iterations
NumRiverNodes == 2    \* centerline vertices of the river
FDen == 2             \* flow-matrix entries are k / FDen, k in 0..FDen
MaxVertices == 4      \* centerline vertices in construct_directed_graph
GridSquares == 1      \* unit squares spanned by the vertices of an .obj file
MaxFaces == 2         \* face records in an .obj file
MaxCoordinate == 3    \* largest x coordinate of a river vertex

\* Python's None, where a face, a cell's coordinates or a river node index is
\* expected.
None == "None"
NoNeighbor == << >>
NoIndex == -1

RECURSIVE Pow(_, _)
Pow(b, e) == IF e = 0 THEN 1 ELSE b * Pow(b, e - 1)

\* The fixed-point unit: 1.0 is held as Unit.
Unit == Pow(FDen, MaxIterations)

RECURSIVE SumOver(_, _)
SumOver(f, S) ==
    IF S = {} THEN 0
    ELSE LET x == CHOOSE y \in S : TRUE IN f[x] + SumOver(f, S \ {x})

(***************************************************************************)
(* The lattice.  setup() enumerates x_values (outer loop) and y_values     *)
(* (inner loop); Point(k) is the k-th lattice point in that order, in      *)
(* units of mesh_size.                                                     *)
(***************************************************************************)
Point(k) == << ((k - 1) \div MeshRows) + 1, ((k - 1) % MeshRows) + 1 >>
Lattice == { Point(k) : k \in 1..MeshCells }

\* round(normal[0]), round(normal[1]) of the 2D-normalised negative normal.
Directions == {-1, 0, 1} \X {-1, 0, 1}

\* What the terrain is at a lattice point: on a face boundary, outside every
\* face, or inside a face with the given rounded downhill direction.
TerrainKinds ==
    { [kind |-> "edge", dir |-> <<0, 0>>], [kind |-> "none", dir |-> <<0, 0>>] }
    \cup { [kind |-> "face", dir |-> d] : d \in Directions }
Terrains == [Lattice -> TerrainKinds]

(***************************************************************************)
(* The river the rain mesh drains into: centerline vertices on the line    *)
(* y = 0 at unit spacing, river.vertices[0] a footprint vertex at the      *)
(* origin.  Indices are Python's, 0-based.                                 *)
(***************************************************************************)
RiverNodes == 0..(NumRiverNodes - 1)
inner_vertices == [i \in RiverNodes |-> <<i + 1, 0>>]
river_vertex0 == <<0, 0>>

\* River.initial_state: the row sums of the distance matrix of the chain.
InitialState ==
    [i \in RiverNodes |->
        Unit * ((IF i > 0 THEN 1 ELSE 0) + (IF i < NumRiverNodes - 1 THEN 1 ELSE 0))]

VARIABLES
    \* the process that builds and steps RainFlow objects
    terrain,          \* the terrain of the process (what get_containing_face answers)
    mesh,             \* RainFlow.mesh: cell coordinates -> cell record
    rf_status,        \* "none", "ready", or the error the constructor raised
    dcp_path,         \* the default path list of disconnect_cyclic_path_if_exists
    ptr_path,         \* the default path list of path_to_river
    initial_state,    \* river.initial_state (the array object)
    river_state_ref,  \* which array RainFlow.river_state refers to
    instances,        \* RainFlow constructor calls so far
    rounds,           \* step_cells rounds run on the current RainFlow
    last,             \* the last operation performed
    river_at_build,   \* the river-state array when the current RainFlow was built
    \* one step_cells round, cell by cell
    phase,            \* "idle", "step" or "commit"
    pending,          \* the cells the current phase has still to process
    round_start,      \* the stepping state when the round began
    \* Model
    model_river_state,  \* Model.river_state
    flow_matrix,        \* river.flow_matrix, numerators over FDen
    offset_vector,      \* river.offset_vector
    model_pc,           \* position in the body of update_river_state's loop
    iterations,         \* loop iterations completed
    iter_start,         \* what the current iteration started from
    \* River.construct_directed_graph
    vertices_count,
    adjacency_matrix_inner_vertices,
    head_vertex,
    directed_graph,
    vertex_queue,
    visited,
    graph_pc,
    pops,             \* iterations of the traversal loop so far
    \* Object (a parsed .obj file)
    obj_file,         \* the face records of the file, in file order
    obj_status,       \* "none", "ready", or the error Object() raised
    faces,            \* Object.faces
    adjacency_matrix, \* Object.adjacency_matrix
    obj_query,        \* the last query made of the Object and what it gave
    \* find_nearest_river_node_index over a river of any shape
    near_river,       \* river.vertices[0] and river.inner_vertices
    near_query,       \* the last coordinates asked for and the index returned
    \* the RainFlow class of Object.py (no river)
    bare_terrain,
    bare_mesh,
    bare_status,
    bare_steps,       \* simulate steps run so far
    \* one call of RainFlow.simulate
    sim_call,         \* its argument, the state it found and the rounds it ran
    \* one call of the RainFlow constructor
    construct_call    \* its rainfall_rate argument and the mesh setup() made

rfVars == << terrain, mesh, rf_status, dcp_path, ptr_path, initial_state,
             river_state_ref, instances, rounds, last, river_at_build >>
orderVars == << phase, pending, round_start >>
modelVars == << model_river_state, flow_matrix, offset_vector, model_pc, iterations,
                iter_start >>
graphVars == << vertices_count, adjacency_matrix_inner_vertices, head_vertex,
                directed_graph, vertex_queue, visited, graph_pc, pops >>
objVars == << obj_file, obj_status, faces, adjacency_matrix, obj_query >>
nearVars == << near_river, near_query >>
bareVars == << bare_terrain, bare_mesh, bare_status, bare_steps >>
simVars == << sim_call >>
conVars == << construct_call >>
extVars == << objVars, nearVars, bareVars, simVars, conVars >>
vars == << rfVars, orderVars, modelVars, graphVars, extVars >>

(***************************************************************************)
(* Object.get_containing_face, as seen from the lattice: a ValueError on a *)
(* boundary, None outside the terrain, a face otherwise.                   *)
(***************************************************************************)
get_containing_face(t, p) ==
    IF p \notin Lattice THEN None
    ELSE IF t[p].kind = "edge" THEN "ValueError"
    ELSE IF t[p].kind = "none" THEN None
    ELSE "face"

SqDist(a, b) == (a[1] - b[1]) * (a[1] - b[1]) + (a[2] - b[2]) * (a[2] - b[2])

\* RainFlow.find_nearest_river_node_index: the scan starts from
\* river.vertices[0] with index 0 and keeps the first strictly closer
\* centerline vertex (distances compared by their squares).
RECURSIVE NearestScan(_, _, _, _, _)
NearestScan(inner, coordinates, i, closest_index, closest_dist) ==
    IF i \notin DOMAIN inner THEN closest_index
    ELSE LET current_dist == SqDist(inner[i], coordinates) IN
         IF current_dist < closest_dist
         THEN NearestScan(inner, coordinates, i + 1, i, current_dist)
         ELSE NearestScan(inner, coordinates, i + 1, closest_index, closest_dist)

\* the scan over a river given by its vertices[0] and its inner_vertices
nearest_river_node_index(river, coordinates) ==
    NearestScan(river.inner_vertices, coordinates, 0, 0,
                SqDist(river.vertices0, coordinates))

find_nearest_river_node_index(coordinates) ==
    nearest_river_node_index([vertices0 |-> river_vertex0,
                              inner_vertices |-> inner_vertices], coordinates)

\* The constructor ignores its rainfall_rate argument (a placeholder of 1).
rainfall_rate == Unit

(***************************************************************************)
(* RainFlow.setup: one cell per lattice point that lies inside a face.     *)
(***************************************************************************)
SetupCell(t, p) ==
    LET neighbor == << p[1] + t[p].dir[1], p[2] + t[p].dir[2] >>
        found == get_containing_face(t, neighbor)
        downhill_neighbor_face == IF found = "ValueError" THEN None ELSE found
    IN  IF downhill_neighbor_face = None
        THEN [current_water_level |-> rainfall_rate, next_water_level |-> 0,
              downhill_neighbor |-> NoNeighbor, sink_cell |-> TRUE,
              nearest_river_node_index |-> find_nearest_river_node_index(p)]
        ELSE [current_water_level |-> rainfall_rate, next_water_level |-> 0,
              downhill_neighbor |-> neighbor, sink_cell |-> FALSE,
              nearest_river_node_index |-> NoIndex]

\* A setup that also creates a cell at a point on a face boundary.
setup_keeping_boundary_points(t) ==
    [p \in { q \in Lattice : get_containing_face(t, q) # None } |-> SetupCell(t, p)]

setup(t) ==
    [p \in { q \in Lattice : get_containing_face(t, q) = "face" } |-> SetupCell(t, p)]

\* The cells in the order of "for x in mesh.keys(): for y in mesh[x].keys()".
CellOrder(m) == SelectSeq([k \in 1..MeshCells |-> Point(k)], LAMBDA p : p \in DOMAIN m)

(***************************************************************************)
(* Cycle elimination.  The two path lists are default arguments: one list  *)
(* object per function, shared by every call that does not pass its own.   *)
(* They are only tested for membership, so they are held as sets.          *)
(***************************************************************************)
\* A disconnect_cell that assigns no river node to the cell it cuts off.
disconnect_cell_without_node(m, coordinates) ==
    IF m[coordinates].downhill_neighbor = NoNeighbor THEN m
    ELSE [m EXCEPT ![coordinates].downhill_neighbor = NoNeighbor,
                   ![coordinates].sink_cell = TRUE]

disconnect_cell(m, coordinates) ==
    IF m[coordinates].downhill_neighbor = NoNeighbor THEN m
    ELSE [m EXCEPT ![coordinates].downhill_neighbor = NoNeighbor,
                   ![coordinates].nearest_river_node_index =
                        find_nearest_river_node_index(coordinates),
                   ![coordinates].sink_cell = TRUE]

RECURSIVE disconnect_cyclic_path_if_exists(_, _, _, _)
disconnect_cyclic_path_if_exists(m, coordinates, non_cyclic_cells, path) ==
    IF m[coordinates].downhill_neighbor = NoNeighbor \/ coordinates \in non_cyclic_cells
    THEN [mesh |-> m, path |-> path]
    ELSE IF coordinates \in path
         THEN [mesh |-> disconnect_cell(m, coordinates), path |-> path]
         ELSE disconnect_cyclic_path_if_exists(
                  m, m[coordinates].downhill_neighbor, non_cyclic_cells,
                  path \cup {coordinates})

\* The recursion of path_to_river below its first call: the cells from
\* coordinates to a sink, or a RecursionError when the chain never ends.
RECURSIVE PathChain(_, _, _)
PathChain(m, coordinates, walked) ==
    IF m[coordinates].sink_cell THEN [ok |-> TRUE, cells |-> walked \cup {coordinates}]
    ELSE IF coordinates \in walked THEN [ok |-> FALSE, cells |-> walked]
    ELSE PathChain(m, m[coordinates].downhill_neighbor, walked \cup {coordinates})

\* path_to_river(coordinates) with the default list: the first call appends
\* to the shared list, the copies made by dict.fromkeys carry on from it.
path_to_river(m, coordinates, path) ==
    LET chain == PathChain(m, coordinates, {}) IN
    [ok |-> chain.ok,
     default |-> path \cup {coordinates},
     path |-> path \cup {coordinates} \cup chain.cells]

RECURSIVE FixLoop(_, _, _)
FixLoop(st, order, k) ==
    IF k > Len(order) \/ ~st.ok THEN st
    ELSE LET c == order[k] IN
         IF c \in st.visited THEN FixLoop(st, order, k + 1)
         ELSE LET d == disconnect_cyclic_path_if_exists(st.mesh, c, st.visited, st.dcp_path)
                  r == path_to_river(d.mesh, c, st.ptr_path)
              IN  FixLoop([mesh |-> d.mesh, dcp_path |-> d.path, ptr_path |-> r.default,
                           visited |-> st.visited \cup r.path, ok |-> r.ok],
                          order, k + 1)

fix_cyclic_flow(m, dpath, rpath) ==
    FixLoop([mesh |-> m, dcp_path |-> dpath, ptr_path |-> rpath, visited |-> {},
             ok |-> TRUE],
            CellOrder(m), 1)

(***************************************************************************)
(* Stepping.  A stepping state is the mesh with the river-state array that *)
(* RainFlow.river_state refers to.                                         *)
(***************************************************************************)
\* A step_cell that pours the water straight into the neighbour's current
\* level (a single pass in place).
step_cell_in_place(st, coordinates) ==
    LET cell == st.mesh[coordinates]
        river_node_index == cell.nearest_river_node_index
    IN  IF river_node_index # NoIndex
        THEN [st EXCEPT !.river_state[river_node_index] = @ + cell.current_water_level]
        ELSE [st EXCEPT !.mesh[cell.downhill_neighbor].current_water_level =
                              @ + cell.current_water_level]

step_cell(st, coordinates) ==
    LET cell == st.mesh[coordinates]
        river_node_index == cell.nearest_river_node_index
    IN  IF river_node_index # NoIndex
        THEN [st EXCEPT !.river_state[river_node_index] = @ + cell.current_water_level]
        ELSE [st EXCEPT !.mesh[cell.downhill_neighbor].next_water_level =
                              @ + cell.current_water_level]

\* An update_water_level that leaves the pending level in place.
update_water_level_without_reset(st, coordinates) ==
    [st EXCEPT !.mesh[coordinates].current_water_level =
                    st.mesh[coordinates].next_water_level]

update_water_level(st, coordinates) ==
    [st EXCEPT !.mesh[coordinates].current_water_level =
                    st.mesh[coordinates].next_water_level,
               !.mesh[coordinates].next_water_level = 0]

RECURSIVE StepPhase(_, _, _)
StepPhase(st, order, k) ==
    IF k > Len(order) THEN st ELSE StepPhase(step_cell(st, order[k]), order, k + 1)

RECURSIVE CommitPhase(_, _, _)
CommitPhase(st, order, k) ==
    IF k > Len(order) THEN st
    ELSE CommitPhase(update_water_level(st, order[k]), order, k + 1)

step_cells(st) ==
    LET order == CellOrder(st.mesh) IN
    CommitPhase(StepPhase(st, order, 1), order, 1)

total_water_level(m) ==
    SumOver([c \in DOMAIN m |-> m[c].current_water_level], DOMAIN m)

\* A loop that does not look at the water left on the mesh.
RECURSIVE SimulateFrom_every_step(_, _, _)
SimulateFrom_every_step(run, i, steps) ==
    IF i >= steps THEN run
    ELSE SimulateFrom_every_step([st |-> step_cells(run.st), rounds |-> run.rounds + 1],
                                 i + 1, steps)

\* simulate(steps): the loop from iteration i on; run.rounds counts the
\* step_cells rounds performed.
RECURSIVE SimulateFrom(_, _, _)
SimulateFrom(run, i, steps) ==
    IF i >= steps THEN run
    ELSE IF total_water_level(run.st.mesh) <= 0 THEN run
    ELSE SimulateFrom([st |-> step_cells(run.st), rounds |-> run.rounds + 1], i + 1, steps)

simulate(st, steps) == SimulateFrom([st |-> st, rounds |-> 0], 0, steps)

(***************************************************************************)
(* The values the variables of a component hold while a specification does *)
(* not use it.                                                             *)
(***************************************************************************)
RfUnused ==
    /\ terrain = <<>> /\ mesh = <<>> /\ rf_status = "none"
    /\ dcp_path = {} /\ ptr_path = {} /\ initial_state = <<>>
    /\ river_state_ref = "initial_state" /\ instances = 0 /\ rounds = 0
    /\ last = "init" /\ river_at_build = <<>>

OrderUnused == phase = "idle" /\ pending = {} /\ round_start = <<>>

ModelUnused ==
    /\ model_river_state = <<>> /\ flow_matrix = <<>> /\ offset_vector = <<>>
    /\ model_pc = "none" /\ iterations = 0 /\ iter_start = <<>>

GraphUnused ==
    /\ vertices_count = 0 /\ adjacency_matrix_inner_vertices = <<>>
    /\ head_vertex = 0 /\ directed_graph = <<>> /\ vertex_queue = <<>>
    /\ visited = <<>> /\ graph_pc = "none" /\ pops = 0

ObjUnused ==
    /\ obj_file = <<>> /\ obj_status = "none" /\ faces = <<>>
    /\ adjacency_matrix = <<>> /\ obj_query = <<>>

NearUnused == near_river = <<>> /\ near_query = <<>>

BareUnused ==
    /\ bare_terrain = <<>> /\ bare_mesh = <<>> /\ bare_status = "none" /\ bare_steps = 0

SimUnused == sim_call = <<>>

ConUnused == construct_call = <<>>

ExtUnused == ObjUnused /\ NearUnused /\ BareUnused /\ SimUnused /\ ConUnused

(***************************************************************************)
(* Spec: a process that builds RainFlow objects over its terrain and river *)
(* (as the tests do, RainFlow.river_state is river.initial_state itself)   *)
(* and calls their methods.                                                *)
(***************************************************************************)
RainfallRates == {0, Unit}
MaxRounds == MeshCells + 2

Init ==
    /\ terrain \in Terrains
    /\ mesh = <<>> /\ rf_status = "none"
    /\ dcp_path = {} /\ ptr_path = {}
    /\ initial_state = InitialState
    /\ river_state_ref = "initial_state"
    /\ instances = 0 /\ rounds = 0 /\ last = "init"
    /\ river_at_build = InitialState
    /\ OrderUnused /\ ModelUnused /\ GraphUnused /\ ExtUnused

\* RainFlow.__init__(terrain, mesh_size, rainfall_rate, river): setup(), then
\* fix_cyclic_flow(); a RecursionError of path_to_river leaves no object.
NewRainFlow(rate) ==
    /\ instances < MaxInstances
    /\ LET r == fix_cyclic_flow(setup(terrain), dcp_path, ptr_path) IN
        /\ mesh' = IF r.ok THEN r.mesh ELSE <<>>
        /\ rf_status' = IF r.ok THEN "ready" ELSE "RecursionError"
        /\ dcp_path' = r.dcp_path
        /\ ptr_path' = r.ptr_path
    /\ river_state_ref' = "initial_state"
    /\ river_at_build' = initial_state
    /\ instances' = instances + 1
    /\ rounds' = 0
    /\ last' = "construct"
    /\ UNCHANGED << terrain, initial_state, orderVars, modelVars, graphVars, extVars >>

\* A further call of fix_cyclic_flow() on the constructed object.
FixCyclicFlow ==
    /\ rf_status = "ready"
    /\ last \in {"construct", "refix"}
    /\ LET r == fix_cyclic_flow(mesh, dcp_path, ptr_path) IN
        /\ mesh' = r.mesh
        /\ dcp_path' = r.dcp_path
        /\ ptr_path' = r.ptr_path
        /\ last' = IF r.ok THEN "refix" ELSE "RecursionError"
    /\ UNCHANGED << terrain, rf_status, initial_state, river_state_ref, instances,
                    rounds, river_at_build, orderVars, modelVars, graphVars, extVars >>

\* simulate(steps) on the constructed object.
Simulate(steps) ==
    /\ rf_status = "ready"
    /\ rounds < MaxRounds
    /\ LET run == simulate([mesh |-> mesh, river_state |-> initial_state], steps) IN
        /\ mesh' = run.st.mesh
        /\ initial_state' = run.st.river_state
        /\ rounds' = rounds + run.rounds
    /\ last' = "simulate"
    /\ UNCHANGED << terrain, rf_status, dcp_path, ptr_path, river_state_ref, instances,
                    river_at_build, orderVars, modelVars, graphVars, extVars >>

Next ==
    \/ \E rate \in RainfallRates : NewRainFlow(rate)
    \/ FixCyclicFlow
    \/ \E steps \in 1..MaxSteps : Simulate(steps)

Spec == Init /\ [][Next]_vars

(***************************************************************************)
(* Claims about cycle elimination and draining (Spec).                     *)
(***************************************************************************)
\* The hops from a cell along downhill_neighbor to a sink cell, -1 when no
\* sink is met within fuel hops.
RECURSIVE HopsFrom(_, _, _)
HopsFrom(m, c, fuel) ==
    IF m[c].sink_cell THEN 0
    ELSE IF fuel = 0 THEN -1
    ELSE LET h == HopsFrom(m, m[c].downhill_neighbor, fuel - 1) IN
         IF h < 0 THEN -1 ELSE h + 1

HopsToSink(m, c) == HopsFrom(m, c, Cardinality(DOMAIN m))
ReachesSink(m, c) == HopsToSink(m, c) >= 0

\* C1: in a constructed RainFlow every cell's downhill chain reaches a sink
\* cell in finitely many hops (no self-loop, 2-cycle or longer cycle remains).
C1_NoDownhillCycle ==
    rf_status = "ready" => \A c \in DOMAIN mesh : ReachesSink(mesh, c)

\* C2: a second call of fix_cyclic_flow, right after the constructor's, leaves
\* every cell (sink flags and downhill pointers) as it was.
C2_Idempotent ==
    [][(last = "construct" /\ last' = "refix") => mesh' = mesh]_vars

\* The hops of the longest downhill chain of the mesh; a chain that never
\* reaches a sink counts as long as the mesh has cells.
ChainLength(m, c) ==
    IF ReachesSink(m, c) THEN HopsToSink(m, c) ELSE Cardinality(DOMAIN m)

LongestChain(m) ==
    IF DOMAIN m = {} THEN 0
    ELSE CHOOSE n \in 0..Cardinality(DOMAIN m) :
            /\ \E c \in DOMAIN m : ChainLength(m, c) = n
            /\ \A c \in DOMAIN m : ChainLength(m, c) <= n

AllCellsDry(m) == \A c \in DOMAIN m : m[c].current_water_level = 0

\* C4: once a constructed RainFlow has been stepped for as many rounds as its
\* longest downhill chain has hops, plus one, every cell holds 0 and the water
\* the mesh was built with has all been added to the river state.
C4_DrainsIntoRiver ==
    (rf_status = "ready" /\ rounds >= LongestChain(mesh) + 1) =>
        /\ AllCellsDry(mesh)
        /\ SumOver(initial_state, RiverNodes) =
               SumOver(river_at_build, RiverNodes)
                   + Cardinality(DOMAIN mesh) * rainfall_rate

(***************************************************************************)
(* SpecOrder: the first RainFlow of a process, its step_cells rounds run   *)
(* one cell at a time.  Within the step phase the step_cell calls, and     *)
(* within the commit phase the update_water_level calls, are made in any   *)
(* order; the commit phase starts when every cell has been stepped.        *)
(***************************************************************************)
FaceTerrains == { t \in Terrains : \A p \in Lattice : t[p].kind = "face" }

\* Whether cell c is processed while a cell that precedes it in the order of
\* step_cells' loops has still to be processed.
Overtakes(c, todo) ==
    \E b \in todo :
        (b[1] - 1) * MeshRows + b[2] < (c[1] - 1) * MeshRows + c[2]

InitOrder ==
    /\ terrain \in FaceTerrains
    /\ LET r == fix_cyclic_flow(setup(terrain), {}, {}) IN
        /\ mesh = r.mesh
        /\ dcp_path = r.dcp_path
        /\ ptr_path = r.ptr_path
    /\ rf_status = "ready"
    /\ initial_state = InitialState
    /\ river_state_ref = "initial_state"
    /\ river_at_build = InitialState
    /\ instances = 1 /\ rounds = 0 /\ last = "construct"
    /\ phase = "idle" /\ pending = {}
    /\ round_start = [st |-> [mesh |-> mesh, river_state |-> initial_state],
                      reordered |-> FALSE]
    /\ ModelUnused /\ GraphUnused /\ ExtUnused

\* simulate finds water on the mesh and calls step_cells.
BeginRound ==
    /\ phase = "idle"
    /\ rounds < MaxSteps
    /\ total_water_level(mesh) > 0
    /\ phase' = "step"
    /\ pending' = DOMAIN mesh
    /\ round_start' = [st |-> [mesh |-> mesh, river_state |-> initial_state],
                       reordered |-> FALSE]
    /\ UNCHANGED << rfVars, modelVars, graphVars, extVars >>

StepCellAny(c) ==
    /\ phase = "step"
    /\ c \in pending
    /\ LET st == step_cell([mesh |-> mesh, river_state |-> initial_state], c) IN
        /\ mesh' = st.mesh
        /\ initial_state' = st.river_state
    /\ round_start' = [round_start EXCEPT !.reordered = @ \/ Overtakes(c, pending)]
    /\ IF pending = {c}
       THEN phase' = "commit" /\ pending' = DOMAIN mesh
       ELSE phase' = "step" /\ pending' = pending \ {c}
    /\ UNCHANGED << terrain, rf_status, dcp_path, ptr_path, river_state_ref, instances,
                    rounds, last, river_at_build, modelVars, graphVars, extVars >>

UpdateWaterLevelAny(c) ==
    /\ phase = "commit"
    /\ c \in pending
    /\ LET st == update_water_level([mesh |-> mesh, river_state |-> initial_state], c) IN
        /\ mesh' = st.mesh
        /\ initial_state' = st.river_state
    /\ round_start' = [round_start EXCEPT !.reordered = @ \/ Overtakes(c, pending)]
    /\ IF pending = {c}
       THEN phase' = "idle" /\ pending' = {} /\ rounds' = rounds + 1
                /\ last' = "simulate"
       ELSE phase' = "commit" /\ pending' = pending \ {c}
                /\ UNCHANGED << rounds, last >>
    /\ UNCHANGED << terrain, rf_status, dcp_path, ptr_path, river_state_ref, instances,
                    river_at_build, modelVars, graphVars, extVars >>

NextOrder ==
    \/ BeginRound
    \/ \E c \in Lattice : StepCellAny(c)
    \/ \E c \in Lattice : UpdateWaterLevelAny(c)

SpecOrder == InitOrder /\ [][NextOrder]_vars

\* C3: whatever the order of the step_cell calls within the step phase and of
\* the update_water_level calls within the commit phase, the round ends in
\* the state that step_cells computes from the state the round began in:
\* every cell's current and pending level and the river-state vector.
C3_OrderIndependent ==
    (phase = "idle" /\ rounds > 0) =>
        [mesh |-> mesh, river_state |-> initial_state] = step_cells(round_start.st)

\* A finished round that processed some cell ahead of its turn, in which a
\* cell received the water of two others.
C3_Witness ==
    /\ phase = "idle" /\ rounds > 0 /\ round_start.reordered
    /\ \E c \in DOMAIN mesh : mesh[c].current_water_level > 2 * rainfall_rate - 1

(***************************************************************************)
(* SpecModel: a Model (model/model.py) over a uniformly sloped terrain,    *)
(* its update_river_state loop taken one statement of the body at a time.  *)
(* The flow matrix and the offset vector are attributes of the River; the  *)
(* matrix holds the numerators of its entries over FDen.                   *)
(***************************************************************************)
RainfallDivisor == 1000

\* The scale_factor arguments tried (rainfall = scale_factor * 0.001 * S).
ScaleFactors == {-RainfallDivisor, 0, RainfallDivisor}

\* Terrains of one face, or of none.
UniformTerrains == { t \in Terrains : \A p, q \in Lattice : t[p] = t[q] }

\* Flow matrices of a chain-shaped river: node i keeps the fraction keep/FDen
\* of itself and receives down/FDen of node i-1 and up/FDen of node i+1.
FlowMatrix(keep, down, up) ==
    [i \in RiverNodes |->
        [j \in RiverNodes |->
            IF j = i THEN keep
            ELSE IF j = i - 1 THEN down
            ELSE IF j = i + 1 THEN up
            ELSE 0]]

FlowMatrices ==
    { FlowMatrix(keep, down, up) : keep \in 0..FDen, down \in 0..FDen, up \in 0..FDen }

\* flow_matrix @ state
MatVec(F, state) ==
    [i \in RiverNodes |->
        SumOver([j \in RiverNodes |-> F[i][j] * state[j]], RiverNodes) \div FDen]

\* River.offset_vector: O = F @ S - S.
OffsetVector(F, S) == [i \in RiverNodes |-> MatVec(F, S)[i] - S[i]]

\* Model.rainfall
rainfall(state, S, scale_factor) ==
    [i \in RiverNodes |-> state[i] + (scale_factor * S[i]) \div RainfallDivisor]

\* A flow_into_river that steps the mesh until it is drained.
flow_into_river_to_exhaustion(st) == simulate(st, MaxRounds)

\* Model.flow_into_river, on the array that both objects then refer to.
flow_into_river(st) == simulate(st, 1)

\* A river_flow that leaves the offset vector out.
river_flow_without_offset(F, O, state) == MatVec(F, state)

\* self.river.flow_matrix @ self.river_state + self.river.offset_vector
river_flow(F, O, state) == [i \in RiverNodes |-> MatVec(F, state)[i] + O[i]]

\* A lower bound that compares the wrong way round.
lower_bound_reversed(state, S) ==
    [i \in RiverNodes |-> IF state[i] > S[i] THEN S[i] ELSE state[i]]

\* np.where(state < initial_state, initial_state, state)
lower_bound(state, S) == [i \in RiverNodes |-> IF state[i] < S[i] THEN S[i] ELSE state[i]]

InitModel ==
    /\ terrain \in UniformTerrains
    /\ LET r == fix_cyclic_flow(setup(terrain), {}, {}) IN
        /\ mesh = r.mesh
        /\ dcp_path = r.dcp_path
        /\ ptr_path = r.ptr_path
    /\ rf_status = "ready"
    /\ initial_state = InitialState
    /\ river_state_ref = "initial_state"
    /\ river_at_build = InitialState
    /\ instances = 1 /\ rounds = 0 /\ last = "construct"
    /\ model_river_state = InitialState
    /\ flow_matrix \in FlowMatrices
    /\ offset_vector \in
          { OffsetVector(flow_matrix, InitialState),
            [i \in RiverNodes |-> Unit], [i \in RiverNodes |-> -Unit] }
    /\ model_pc = "idle"
    /\ iterations = 0
    /\ iter_start = [river_state |-> InitialState, rained |-> InitialState,
                     mesh |-> mesh, no_rainfall |-> TRUE, scale_factor |-> 0,
                     unclamped |-> InitialState]
    /\ OrderUnused /\ GraphUnused /\ ExtUnused

\* The loop body up to the call of flow_into_river.
Rainfall(no_rainfall, scale_factor) ==
    /\ model_pc = "idle"
    /\ iterations < MaxIterations
    /\ model_river_state' =
          IF no_rainfall THEN model_river_state
          ELSE rainfall(model_river_state, initial_state, scale_factor)
    /\ iter_start' = [river_state |-> model_river_state, rained |-> model_river_state',
                      mesh |-> mesh, no_rainfall |-> no_rainfall,
                      scale_factor |-> scale_factor, unclamped |-> model_river_state']
    /\ model_pc' = "flow_into_river"
    /\ UNCHANGED << rfVars, orderVars, flow_matrix, offset_vector, iterations, graphVars, extVars >>

FlowIntoRiver ==
    /\ model_pc = "flow_into_river"
    /\ LET run == flow_into_river([mesh |-> mesh, river_state |-> model_river_state]) IN
        /\ mesh' = run.st.mesh
        /\ model_river_state' = run.st.river_state
        /\ rounds' = rounds + run.rounds
    /\ river_state_ref' = "model"
    /\ last' = "simulate"
    /\ model_pc' = "flow_matrix"
    /\ UNCHANGED << terrain, rf_status, dcp_path, ptr_path, initial_state, instances,
                    river_at_build, orderVars, flow_matrix, offset_vector, iterations,
                    iter_start, graphVars, extVars >>

\* The rest of the loop body: the flow matrix, then the lower bound.  Both
\* assignments bind Model.river_state to a new array.
ApplyFlowMatrix ==
    /\ model_pc = "flow_matrix"
    /\ LET flowed == river_flow(flow_matrix, offset_vector, model_river_state) IN
        /\ model_river_state' = lower_bound(flowed, initial_state)
        /\ iter_start' = [iter_start EXCEPT !.unclamped = flowed]
    /\ river_state_ref' = "detached"
    /\ iterations' = iterations + 1
    /\ model_pc' = "idle"
    /\ UNCHANGED << terrain, mesh, rf_status, dcp_path, ptr_path, initial_state,
                    instances, rounds, last, river_at_build, orderVars, flow_matrix,
                    offset_vector, graphVars, extVars >>

NextModel ==
    \/ \E scale_factor \in ScaleFactors : Rainfall(FALSE, scale_factor)
    \/ Rainfall(TRUE, RainfallDivisor)
    \/ FlowIntoRiver
    \/ ApplyFlowMatrix

SpecModel == InitModel /\ [][NextModel]_vars

(***************************************************************************)
(* Claims about the stepper (SpecModel).                                   *)
(***************************************************************************)
SinkWater(m, i) ==
    SumOver([c \in DOMAIN m |->
                IF m[c].nearest_river_node_index = i THEN m[c].current_water_level ELSE 0],
            DOMAIN m)

InteriorWater(m) ==
    SumOver([c \in DOMAIN m |->
                IF m[c].nearest_river_node_index = NoIndex
                THEN m[c].current_water_level ELSE 0],
            DOMAIN m)

C6_NeverBelowInitialState ==
    model_pc = "idle" => \A i \in RiverNodes : model_river_state[i] >= initial_state[i]

\* An iteration with negative rainfall has ended, and the flow matrix had
\* left a node below its initial state.
C6_Witness ==
    /\ model_pc = "idle" /\ iterations > 0
    /\ ~iter_start.no_rainfall /\ iter_start.scale_factor < 0
    /\ \E i \in RiverNodes : iter_start.unclamped[i] < initial_state[i]
    /\ \E i \in RiverNodes : iter_start.unclamped[i] > initial_state[i]

\* An iteration without rainfall that began at the reference state with no
\* water on the mesh, the offset vector being F @ S - S.
FromReferenceState ==
    /\ model_pc = "idle" /\ iterations > 0
    /\ iter_start.no_rainfall
    /\ iter_start.river_state = initial_state
    /\ total_water_level(iter_start.mesh) = 0
    /\ offset_vector = OffsetVector(flow_matrix, initial_state)

\* C7: such an iteration leaves the river state equal to the reference state
\* S at every node, whatever the flow matrix with entries in [0,1].
C7_ReferenceStateFixed ==
    FromReferenceState => model_river_state = initial_state

\* C7 as amended: such an iteration leaves node i at S[i] when
\* (F @ S)[i] <= S[i], and at 2 (F @ S)[i] - S[i] otherwise, so that S is a
\* fixed point exactly when F @ S <= S at every node.
C7_FixedWhereFlowBelowReference ==
    FromReferenceState =>
        \A i \in RiverNodes :
            LET FS == MatVec(flow_matrix, initial_state)[i] IN
            model_river_state[i] =
                IF FS <= initial_state[i] THEN initial_state[i]
                ELSE 2 * FS - initial_state[i]

\* Such an iteration under a flow matrix with a fractional entry, that left
\* the reference state in place.
C7_Witness ==
    /\ FromReferenceState
    /\ \E i, j \in RiverNodes : flow_matrix[i][j] > 0 /\ flow_matrix[i][j] < FDen
    /\ \E i, j \in RiverNodes : i # j /\ flow_matrix[i][j] > 0
    /\ model_river_state = initial_state

(***************************************************************************)
(* SpecRiver: River.construct_directed_graph over the centerline adjacency *)
(* of a river file, one iteration of its traversal loop at a time.         *)
(***************************************************************************)
Vertices(n) == 0 .. n - 1

\* What _construct_adjacency_inner_vertices builds from faces that list no
\* vertex twice: neighbours within a face are neighbours of each other, and
\* no vertex is its own neighbour.
AdjacencyMatrices(n) ==
    { A \in [Vertices(n) -> [Vertices(n) -> BOOLEAN]] :
        \A v, w \in Vertices(n) : (A[v][w] = A[w][v]) /\ ~A[v][v] }

RECURSIVE Ascending(_)
Ascending(S) ==
    IF S = {} THEN << >>
    ELSE LET lo == CHOOSE v \in S : \A w \in S : v <= w
         IN  << lo >> \o Ascending(S \ {lo})

\* An upstream_vertices that keeps the first unvisited neighbour only.
upstream_vertices_first_only(adjacency_vector, visitation) ==
    LET all == { v \in DOMAIN adjacency_vector : adjacency_vector[v] /\ ~visitation[v] }
    IN  IF all = {} THEN << >> ELSE << Ascending(all)[1] >>

\* An upstream_vertices that does not consult the visitation array.
upstream_vertices_unfiltered(adjacency_vector, visitation) ==
    Ascending({ v \in DOMAIN adjacency_vector : adjacency_vector[v] })

\* [vertex for vertex in np.where(adjacency_vector != 0)[0] if not visited[vertex]]
upstream_vertices(adjacency_vector, visitation) ==
    Ascending({ v \in DOMAIN adjacency_vector : adjacency_vector[v] /\ ~visitation[v] })

\* A mark_downstream that writes the edge the other way round.
mark_downstream_transposed(graph, upstream, vertex) ==
    [u \in DOMAIN graph |->
        [w \in DOMAIN graph |->
            graph[u][w] \/ (u = vertex /\ \E k \in DOMAIN upstream : upstream[k] = w)]]

\* self._directed_graph[upstream_vertex, vertex] = 1, for each upstream vertex
mark_downstream(graph, upstream, vertex) ==
    [u \in DOMAIN graph |->
        [w \in DOMAIN graph |->
            graph[u][w] \/ (w = vertex /\ \E k \in DOMAIN upstream : upstream[k] = u)]]

InitRiver ==
    /\ RfUnused /\ OrderUnused /\ ModelUnused /\ ExtUnused
    /\ vertices_count \in 1 .. MaxVertices
    /\ adjacency_matrix_inner_vertices \in AdjacencyMatrices(vertices_count)
    /\ head_vertex \in Vertices(vertices_count)
    /\ directed_graph = [u \in Vertices(vertices_count) |->
                            [w \in Vertices(vertices_count) |-> FALSE]]
    /\ vertex_queue = << head_vertex >>
    /\ visited = [v \in Vertices(vertices_count) |-> FALSE]
    /\ graph_pc = "loop"
    /\ pops = 0

\* One iteration of the loop over the vertex queue.
TraverseVertex ==
    /\ graph_pc = "loop"
    /\ vertex_queue # << >>
    /\ LET vertex == vertex_queue[Len(vertex_queue)]
           marked == [visited EXCEPT ![vertex] = TRUE]
           upstream == upstream_vertices(adjacency_matrix_inner_vertices[vertex], marked)
       IN  /\ visited' = marked
           /\ directed_graph' = mark_downstream(directed_graph, upstream, vertex)
           /\ vertex_queue' = SubSeq(vertex_queue, 1, Len(vertex_queue) - 1) \o upstream
    /\ pops' = pops + 1
    /\ UNCHANGED << vertices_count, adjacency_matrix_inner_vertices, head_vertex, graph_pc >>
    /\ UNCHANGED << rfVars, orderVars, modelVars, extVars >>

\* The queue is empty: construct_directed_graph, unpack and River() return.
ReturnRiver ==
    /\ graph_pc = "loop"
    /\ vertex_queue = << >>
    /\ graph_pc' = "done"
    /\ UNCHANGED << vertices_count, adjacency_matrix_inner_vertices, head_vertex,
                    directed_graph, vertex_queue, visited, pops >>
    /\ UNCHANGED << rfVars, orderVars, modelVars, extVars >>

NextRiver == TraverseVertex \/ ReturnRiver

SpecRiver == InitRiver /\ [][NextRiver]_vars

(***************************************************************************)
(* Claims about the directed graph of a River (SpecRiver).                 *)
(***************************************************************************)
RECURSIVE ReachableFrom(_)
ReachableFrom(S) ==
    LET more == S \cup { w \in Vertices(vertices_count) :
                            \E v \in S : adjacency_matrix_inner_vertices[v][w] }
    IN  IF more = S THEN S ELSE ReachableFrom(more)

AdjacencyConnected == ReachableFrom({head_vertex}) = Vertices(vertices_count)

AdjacencyEdges ==
    { e \in Vertices(vertices_count) \X Vertices(vertices_count) :
        e[1] < e[2] /\ adjacency_matrix_inner_vertices[e[1]][e[2]] }

\* connected with one edge fewer than vertices: the adjacency has no cycle
AdjacencyIsTree ==
    AdjacencyConnected /\ Cardinality(AdjacencyEdges) = vertices_count - 1

OutDegree(v) == Cardinality({ w \in Vertices(vertices_count) : directed_graph[v][w] })

ZeroRows == { v \in Vertices(vertices_count) : OutDegree(v) = 0 }

\* C8: for a connected centerline adjacency, the directed graph that
\* construct_directed_graph leaves has exactly one row that is entirely false.
C8_OneZeroRow ==
    (graph_pc = "done" /\ AdjacencyConnected) => Cardinality(ZeroRows) = 1

\* The traversal has ended over a connected adjacency that branches and
\* closes a cycle.
C8_Witness ==
    /\ graph_pc = "done" /\ AdjacencyConnected
    /\ vertices_count >= 4
    /\ Cardinality(AdjacencyEdges) >= vertices_count
    /\ \E v \in Vertices(vertices_count) :
          Cardinality({ w \in Vertices(vertices_count) :
                          adjacency_matrix_inner_vertices[v][w] }) >= 3

\* C9: no River is returned whose centerline has a vertex that the head does
\* not reach through the adjacency (construction fails instead).
C9_DisconnectedRejected ==
    graph_pc = "done" => AdjacencyConnected

\* C10: for a connected centerline adjacency, every vertex other than the
\* outlet has exactly one outgoing edge in the directed graph.
C10_OneOutgoingEdge ==
    (graph_pc = "done" /\ AdjacencyConnected) =>
        \A v \in Vertices(vertices_count) \ {head_vertex} : OutDegree(v) = 1

\* C10 as amended: for a connected centerline adjacency without cycles,
\* every vertex other than the outlet has exactly one outgoing edge in the
\* directed graph.
C10_OneOutgoingEdgeInTree ==
    (graph_pc = "done" /\ AdjacencyIsTree) =>
        \A v \in Vertices(vertices_count) \ {head_vertex} : OutDegree(v) = 1

\* The traversal has ended over a tree that branches away from the head.
C10_Witness ==
    /\ graph_pc = "done" /\ AdjacencyIsTree
    /\ vertices_count >= 4
    /\ \E v \in Vertices(vertices_count) \ {head_vertex} :
          Cardinality({ w \in Vertices(vertices_count) :
                          adjacency_matrix_inner_vertices[v][w] }) >= 3

RECURSIVE DownstreamOf(_)
DownstreamOf(S) ==
    LET more == S \cup { w \in Vertices(vertices_count) :
                            \E v \in S : directed_graph[v][w] }
    IN  IF more = S THEN S ELSE DownstreamOf(more)

\* v lies on a directed cycle: some vertex it points to leads back to it
OnDirectedCycle(v) ==
    v \in DownstreamOf({ w \in Vertices(vertices_count) : directed_graph[v][w] })

\* C11: whatever the symmetric adjacency, the directed graph never holds a
\* directed cycle, during the traversal and when it has ended: no self-edge,
\* no pair u->v, v->u, no longer cycle.
C11_NoDirectedCycle ==
    graph_pc \in {"loop", "done"} =>
        \A v \in Vertices(vertices_count) : ~OnDirectedCycle(v)

\* The traversal has ended over a disconnected adjacency whose head lies on
\* a cycle, and some vertex was given two outgoing edges.
C11_Witness ==
    /\ graph_pc = "done"
    /\ ~AdjacencyConnected
    /\ \E u, v \in Vertices(vertices_count) \ {head_vertex} :
          /\ u # v
          /\ adjacency_matrix_inner_vertices[head_vertex][u]
          /\ adjacency_matrix_inner_vertices[u][v]
          /\ adjacency_matrix_inner_vertices[v][head_vertex]
    /\ \E v \in Vertices(vertices_count) : OutDegree(v) >= 2

(***************************************************************************)
(* SpecObject: an Object built from an .obj file, then queried.  The file  *)
(* lists the vertices of a strip of unit squares; coordinates are held in  *)
(* quarters of a unit so that query points between vertices are integers.  *)
(***************************************************************************)
VertexCount == 2 * (GridSquares + 1)

\* the "v" records, in file order
FileVertices ==
    [k \in 1..VertexCount |->
        LET i == (k - 1) \div 2
            j == (k - 1) % 2
        IN  << 4 * i, 4 * j, 2 * i + j >>]

\* the "vn" records
FileNormals == << << 0, 0, 1 >> >>

\* A face record: the 1-based vertex index and normal index of each of its
\* "<vertex>/<vertex-texture>/<normal-vector>" components.
FaceRecord(v) == [v |-> v, vn |-> [k \in DOMAIN v |-> 1]]

\* The faces over one unit square: its four half triangles and the square.
SquareRecords(i) ==
    LET a == 2 * i + 1
        b == 2 * i + 2
        c == 2 * i + 3
        d == 2 * i + 4
    IN  { FaceRecord(<< a, c, d >>), FaceRecord(<< a, d, b >>),
          FaceRecord(<< a, c, b >>), FaceRecord(<< c, d, b >>),
          FaceRecord(<< a, c, d, b >>) }

WellFormedRecords == UNION { SquareRecords(i) : i \in 0 .. GridSquares - 1 }

\* A face listed again from another of its vertices, and records whose
\* indices leave 1..count.
OtherRecords ==
    { FaceRecord(<< 3, 4, 1 >>),
      FaceRecord(<< 0, 1, 3 >>),
      FaceRecord(<< 1, 3, VertexCount + 1 >>),
      [v |-> << 1, 3, 4 >>, vn |-> << 0, 1, 1 >>],
      [v |-> << 1, 3, 4 >>, vn |-> << 2, 1, 1 >>],
      [v |-> << 1, 3, 4 >>, vn |-> << 1, 2, 1 >>] }

FaceRecords == WellFormedRecords \cup OtherRecords

ObjFiles == UNION { [1..n -> FaceRecords] : n \in 1..MaxFaces }

\* sequence[index] of Python and numpy: a negative index counts from the end.
PyIndex(sequence, index) ==
    IF index >= 0 /\ index < Len(sequence)
    THEN [ok |-> TRUE, value |-> sequence[index + 1]]
    ELSE IF index < 0 /\ index >= 0 - Len(sequence)
    THEN [ok |-> TRUE, value |-> sequence[Len(sequence) + index + 1]]
    ELSE [ok |-> FALSE, value |-> << >>]

\* One pass of the loop over face_strings in _parse_file.
ParseFace(record, index) ==
    LET normal == PyIndex(FileNormals, record.vn[1] - 1)
        found == [k \in DOMAIN record.v |-> PyIndex(FileVertices, record.v[k] - 1)]
    IN  IF ~normal.ok \/ \E k \in DOMAIN found : ~found[k].ok
        THEN [ok |-> FALSE, face |-> << >>]
        ELSE [ok |-> TRUE,
              face |-> [vertices |-> [k \in DOMAIN found |-> found[k].value],
                        normal |-> normal.value,
                        index |-> index]]

\* Object._parse_file: the faces, or the IndexError of the first record
\* that reaches outside the vertices or the normals.
parse_file(file) ==
    LET parsed == [k \in DOMAIN file |-> ParseFace(file[k], k - 1)]
    IN  IF \E k \in DOMAIN file : ~parsed[k].ok
        THEN [ok |-> FALSE, faces |-> << >>]
        ELSE [ok |-> TRUE, faces |-> [k \in DOMAIN file |-> parsed[k].face]]

MinOf(S) == CHOOSE x \in S : \A y \in S : x <= y
MaxOf(S) == CHOOSE x \in S : \A y \in S : x >= y

\* Face.bbox: polygon.bounds, (minx, miny, maxx, maxy)
bbox(face) ==
    LET xs == { face.vertices[k][1] : k \in DOMAIN face.vertices }
        ys == { face.vertices[k][2] : k \in DOMAIN face.vertices }
    IN  << MinOf(xs), MinOf(ys), MaxOf(xs), MaxOf(ys) >>

\* quadtree.intersect(rect): the faces whose bounding box meets the
\* rectangle (a point is the rectangle (x, y, x, y)); in no particular order.
quadtree_intersect(fs, rect) ==
    { k \in DOMAIN fs :
        LET b == bbox(fs[k]) IN
        b[3] >= rect[1] /\ b[1] <= rect[3] /\ b[4] >= rect[2] /\ b[2] <= rect[4] }

PointRect(point) == << point[1], point[2], point[1], point[2] >>

\* Face.__eq__: np.array_equal(self.vertices, other.vertices)
Face_eq(face, other) == face.vertices = other.vertices

\* numpy_vector_intersect: the vertices two faces have in common
numpy_vector_intersect(vector_array1, vector_array2) ==
    { vector_array1[k] : k \in DOMAIN vector_array1 }
        \cap { vector_array2[k] : k \in DOMAIN vector_array2 }

\* A neighbour filter that lets every candidate through.
proper_neighbors_unfiltered(fs, k) == quadtree_intersect(fs, bbox(fs[k]))

\* filter(face.__ne__, self.quadtree.intersect(face.bbox))
proper_neighbors(fs, k) ==
    { n \in quadtree_intersect(fs, bbox(fs[k])) : ~Face_eq(fs[k], fs[n]) }

\* Object._construct_adjacency; rows and columns are face.index, 0-based.
construct_adjacency(fs) ==
    [i \in 0 .. Len(fs) - 1 |->
        [j \in 0 .. Len(fs) - 1 |->
            /\ j + 1 \in proper_neighbors(fs, i + 1)
            /\ Cardinality(numpy_vector_intersect(fs[i + 1].vertices,
                                                  fs[j + 1].vertices)) > 1]]

\* "vertex in face.vertices" on a numpy array: (face.vertices == vertex).any()
numpy_contains(array, vertex) ==
    \E k \in DOMAIN array : \E c \in DOMAIN vertex : array[k][c] = vertex[c]

\* Object.get_member_faces, as the set of the indices of the faces returned
get_member_faces(fs, vertex) ==
    { k - 1 : k \in { n \in quadtree_intersect(fs, PointRect(vertex)) :
                        numpy_contains(fs[n].vertices, vertex) } }

(* The 2D predicates of shapely on the polygon of a face. *)
Cross(a, b, p) == (b[1] - a[1]) * (p[2] - a[2]) - (b[2] - a[2]) * (p[1] - a[1])

PolygonEdges(vs) ==
    { << vs[k], vs[(k % Len(vs)) + 1] >> : k \in DOMAIN vs }

OnSegment(a, b, p) ==
    /\ Cross(a, b, p) = 0
    /\ p[1] >= MinOf({a[1], b[1]}) /\ p[1] <= MaxOf({a[1], b[1]})
    /\ p[2] >= MinOf({a[2], b[2]}) /\ p[2] <= MaxOf({a[2], b[2]})

\* A test for the ring that looks at the vertices of the polygon only.
within_exterior_vertices_only(face, target) ==
    \E k \in DOMAIN face.vertices :
        face.vertices[k][1] = target[1] /\ face.vertices[k][2] = target[2]

\* target.within(face.polygon.exterior): the point lies on the ring
within_exterior(face, target) ==
    \E e \in PolygonEdges(face.vertices) : OnSegment(e[1], e[2], target)

\* target.within(face.polygon): the point lies in the interior of the
\* (convex) polygon
within_polygon(face, target) ==
    \/ \A e \in PolygonEdges(face.vertices) : Cross(e[1], e[2], target) > 0
    \/ \A e \in PolygonEdges(face.vertices) : Cross(e[1], e[2], target) < 0

\* The loop of Object.get_containing_face over the candidates in the order
\* the quadtree returned them: the index of a face, None or "ValueError".
RECURSIVE ContainingFaceLoop(_, _, _)
ContainingFaceLoop(fs, candidates, target) ==
    IF candidates = << >> THEN None
    ELSE LET face == fs[Head(candidates)] IN
         IF within_exterior(face, target) THEN "ValueError"
         ELSE IF within_polygon(face, target) THEN ToString(face.index)
         ELSE ContainingFaceLoop(fs, Tail(candidates), target)

RECURSIVE Orders(_)
Orders(S) ==
    IF S = {} THEN { << >> }
    ELSE UNION { { << x >> \o rest : rest \in Orders(S \ {x}) } : x \in S }

QueryPoints == (-1 .. 4 * GridSquares + 1) \X (-1 .. 5)

InitObject ==
    /\ RfUnused /\ OrderUnused /\ ModelUnused /\ GraphUnused
    /\ NearUnused /\ BareUnused /\ SimUnused /\ ConUnused
    /\ obj_file \in ObjFiles
    /\ obj_status = "none"
    /\ faces = << >>
    /\ adjacency_matrix = << >>
    /\ obj_query = [op |-> "none", arg |-> << >>, result |-> None]

\* Object(obj_file): unpack() parses the file, builds the quadtree and the
\* adjacency matrix.
NewObject ==
    /\ obj_status = "none"
    /\ LET parsed == parse_file(obj_file) IN
        IF parsed.ok
        THEN /\ obj_status' = "ready"
             /\ faces' = parsed.faces
             /\ adjacency_matrix' = construct_adjacency(parsed.faces)
        ELSE /\ obj_status' = "IndexError"
             /\ UNCHANGED << faces, adjacency_matrix >>
    /\ UNCHANGED << obj_file, obj_query >>
    /\ UNCHANGED << rfVars, orderVars, modelVars, graphVars, nearVars, bareVars, simVars, conVars >>

\* The queries leave the Object as it is; a behaviour makes one of them.
GetMemberFaces(vertex) ==
    /\ obj_status = "ready"
    /\ obj_query.op = "none"
    /\ obj_query' = [op |-> "get_member_faces", arg |-> vertex,
                     result |-> get_member_faces(faces, vertex)]
    /\ UNCHANGED << obj_file, obj_status, faces, adjacency_matrix >>
    /\ UNCHANGED << rfVars, orderVars, modelVars, graphVars, nearVars, bareVars, simVars, conVars >>

GetContainingFace(point) ==
    /\ obj_status = "ready"
    /\ obj_query.op = "none"
    /\ \E candidates \in Orders(quadtree_intersect(faces, PointRect(point))) :
          obj_query' = [op |-> "get_containing_face", arg |-> point,
                        result |-> ContainingFaceLoop(faces, candidates, point)]
    /\ UNCHANGED << obj_file, obj_status, faces, adjacency_matrix >>
    /\ UNCHANGED << rfVars, orderVars, modelVars, graphVars, nearVars, bareVars, simVars, conVars >>

NextObject ==
    \/ NewObject
    \/ \E k \in 1..VertexCount : GetMemberFaces(FileVertices[k])
    \/ \E point \in QueryPoints : GetContainingFace(point)

SpecObject == InitObject /\ [][NextObject]_vars

(***************************************************************************)
(* Claims about Object (SpecObject).                                       *)
(***************************************************************************)
FaceIndices == 0 .. Len(faces) - 1

SharedVertices(i, j) ==
    { v \in { faces[i + 1].vertices[k] : k \in DOMAIN faces[i + 1].vertices } :
        \E k \in DOMAIN faces[j + 1].vertices : faces[j + 1].vertices[k] = v }

\* C12: the face-adjacency matrix of every parsed mesh is symmetric and
\* irreflexive.
C12_SymmetricIrreflexive ==
    obj_status = "ready" =>
        \A i, j \in FaceIndices :
            /\ adjacency_matrix[i][j] = adjacency_matrix[j][i]
            /\ ~adjacency_matrix[i][i]

\* A mesh of two faces along a common edge has been parsed, and they are
\* adjacent.
C12_Witness ==
    /\ obj_status = "ready" /\ Len(faces) = 2
    /\ Cardinality(SharedVertices(0, 1)) = 2
    /\ adjacency_matrix[0][1] /\ adjacency_matrix[1][0]

\* C13: for faces of different indices, the adjacency entry is true exactly
\* when the two faces have at least two vertices in common, faces of
\* identical vertex lists included.
C13_AdjacentIffSharedEdge ==
    obj_status = "ready" =>
        \A i, j \in FaceIndices :
            i # j => (adjacency_matrix[i][j] <=> Cardinality(SharedVertices(i, j)) >= 2)

\* the orientation of a convex polygon: the side of its first edge on which
\* its third vertex lies
Orientation(vs) == Cross(vs[1], vs[2], vs[3])

OnBoundary(vs, p) ==
    \E k \in DOMAIN vs : OnSegment(vs[k], vs[(k % Len(vs)) + 1], p)

InInterior(vs, p) ==
    /\ Orientation(vs) # 0
    /\ \A k \in DOMAIN vs : Cross(vs[k], vs[(k % Len(vs)) + 1], p) * Orientation(vs) > 0

\* some edge of vs has all of ws on its outer side
SeparatedBy(vs, ws) ==
    \E k \in DOMAIN vs : \A n \in DOMAIN ws :
        Cross(vs[k], vs[(k % Len(vs)) + 1], ws[n]) * Orientation(vs) <= 0

InteriorsDisjoint(vs, ws) ==
    \/ Orientation(vs) = 0 \/ Orientation(ws) = 0
    \/ SeparatedBy(vs, ws) \/ SeparatedBy(ws, vs)

PairwiseDisjointInteriors ==
    \A i, j \in DOMAIN faces :
        i # j => InteriorsDisjoint(faces[i].vertices, faces[j].vertices)

\* C14: over faces of pairwise disjoint interiors, get_containing_face
\* raises ValueError for a point on a vertex or an edge of some face,
\* returns the face whose interior holds the point otherwise, and None when
\* there is none, in whatever order the quadtree hands over the candidates.
C14_ContainingFace ==
    (obj_query.op = "get_containing_face" /\ PairwiseDisjointInteriors) =>
        obj_query.result =
            IF \E k \in DOMAIN faces : OnBoundary(faces[k].vertices, obj_query.arg)
            THEN "ValueError"
            ELSE IF \E k \in DOMAIN faces : InInterior(faces[k].vertices, obj_query.arg)
            THEN ToString((CHOOSE k \in DOMAIN faces :
                              InInterior(faces[k].vertices, obj_query.arg)) - 1)
            ELSE None

\* A point on the edge that two faces of disjoint interiors share, not at a
\* vertex, has been asked for, and the query raised.
C14_Witness ==
    /\ obj_query.op = "get_containing_face" /\ PairwiseDisjointInteriors
    /\ Len(faces) = 2
    /\ Orientation(faces[1].vertices) # 0 /\ Orientation(faces[2].vertices) # 0
    /\ OnBoundary(faces[1].vertices, obj_query.arg)
    /\ OnBoundary(faces[2].vertices, obj_query.arg)
    /\ \A k \in 1..VertexCount :
          << FileVertices[k][1], FileVertices[k][2] >> # obj_query.arg
    /\ obj_query.result = "ValueError"

\* C15: get_member_faces returns exactly the faces that list the vertex,
\* all three coordinates equal.
C15_MemberFaces ==
    obj_query.op = "get_member_faces" =>
        obj_query.result =
            { i \in FaceIndices :
                \E k \in DOMAIN faces[i + 1].vertices :
                    faces[i + 1].vertices[k] = obj_query.arg }

\* C16: no Object is built from a file with a face record whose vertex or
\* normal index lies outside 1..count.
C16_IndicesInRange ==
    obj_status = "ready" =>
        \A r \in DOMAIN obj_file : \A k \in DOMAIN obj_file[r].v :
            /\ obj_file[r].v[k] \in 1..VertexCount
            /\ obj_file[r].vn[k] \in 1..Len(FileNormals)

(***************************************************************************)
(* SpecNearest: find_nearest_river_node_index over rivers of any shape.    *)
(* inner_vertices is np.unique(..., axis=0): sorted, without repetition;   *)
(* vertices[0] is the first "v" record of the river file.                  *)
(***************************************************************************)
RiverPositions == (0 .. MaxCoordinate) \X (0 .. 1)

LexLess(a, b) == a[1] < b[1] \/ (a[1] = b[1] /\ a[2] < b[2])

InnerVertexLists ==
    { inner \in [RiverNodes -> RiverPositions] :
        \A i, j \in RiverNodes : i < j => LexLess(inner[i], inner[j]) }

InitNearest ==
    /\ RfUnused /\ OrderUnused /\ ModelUnused /\ GraphUnused
    /\ ObjUnused /\ BareUnused /\ SimUnused /\ ConUnused
    /\ near_river \in [vertices0 : RiverPositions, inner_vertices : InnerVertexLists]
    /\ near_query = [coordinates |-> << >>, result |-> NoIndex]

FindNearestRiverNodeIndex(coordinates) ==
    /\ near_query' = [coordinates |-> coordinates,
                      result |-> nearest_river_node_index(near_river, coordinates)]
    /\ UNCHANGED << near_river, rfVars, orderVars, modelVars, graphVars, objVars, bareVars, simVars, conVars >>

NextNearest == \E coordinates \in RiverPositions : FindNearestRiverNodeIndex(coordinates)

SpecNearest == InitNearest /\ [][NextNearest]_vars

\* C17: find_nearest_river_node_index returns the lowest index among the
\* centerline vertices at minimum distance from the coordinates, wherever
\* river.vertices[0] lies.
C17_NearestCenterlineVertex ==
    near_query.result # NoIndex =>
        LET inner == near_river.inner_vertices
            nearest == { i \in RiverNodes :
                           \A j \in RiverNodes :
                               SqDist(inner[i], near_query.coordinates)
                                   <= SqDist(inner[j], near_query.coordinates) }
        IN  near_query.result = CHOOSE i \in nearest : \A j \in nearest : i <= j

(***************************************************************************)
(* SpecSimulate: calls of simulate(steps) on a RainFlow built over a       *)
(* terrain, each call recorded with the state it started from.             *)
(***************************************************************************)
InitSimulate ==
    /\ terrain \in Terrains
    /\ LET r == fix_cyclic_flow(setup(terrain), {}, {}) IN
        /\ mesh = r.mesh
        /\ dcp_path = r.dcp_path
        /\ ptr_path = r.ptr_path
    /\ rf_status = "ready"
    /\ initial_state = InitialState
    /\ river_state_ref = "initial_state"
    /\ river_at_build = InitialState
    /\ instances = 1 /\ rounds = 0 /\ last = "construct"
    /\ sim_call = [steps |-> NoIndex, before |-> << >>, rounds |-> 0]
    /\ OrderUnused /\ ModelUnused /\ GraphUnused
    /\ ObjUnused /\ NearUnused /\ BareUnused /\ ConUnused

SimulateCall(steps) ==
    /\ rf_status = "ready"
    /\ rounds < MaxRounds
    /\ LET before == [mesh |-> mesh, river_state |-> initial_state]
           run == simulate(before, steps)
       IN  /\ mesh' = run.st.mesh
           /\ initial_state' = run.st.river_state
           /\ rounds' = rounds + run.rounds
           /\ sim_call' = [steps |-> steps, before |-> before, rounds |-> run.rounds]
    /\ last' = "simulate"
    /\ UNCHANGED << terrain, rf_status, dcp_path, ptr_path, river_state_ref, instances,
                    river_at_build, orderVars, modelVars, graphVars,
                    objVars, nearVars, bareVars, conVars >>

NextSimulate == \E steps \in 0..MaxSteps : SimulateCall(steps)

SpecSimulate == InitSimulate /\ [][NextSimulate]_vars

\* k step_cells rounds, one after the other
RECURSIVE RoundsFrom(_, _)
RoundsFrom(st, k) == IF k = 0 THEN st ELSE step_cells(RoundsFrom(st, k - 1))

\* C18: simulate(n) runs at most n step_cells rounds, each of them begun
\* with water on the mesh, and stops short of n only at a round that would
\* begin with none; called with no water on the mesh it changes no cell and
\* no entry of river_state.
C18_SimulateRounds ==
    sim_call.steps # NoIndex =>
        LET n == sim_call.steps
            k == sim_call.rounds
            after == [mesh |-> mesh, river_state |-> initial_state]
        IN  /\ k <= n
            /\ after = RoundsFrom(sim_call.before, k)
            /\ \A j \in 0 .. k - 1 :
                  total_water_level(RoundsFrom(sim_call.before, j).mesh) > 0
            /\ k < n => total_water_level(after.mesh) <= 0
            /\ total_water_level(sim_call.before.mesh) <= 0 => after = sim_call.before

\* A call simulate(n) that stopped before its n-th round because the mesh
\* had drained.
C18_Witness ==
    /\ sim_call.steps # NoIndex
    /\ sim_call.rounds > 0 /\ sim_call.rounds < sim_call.steps
    /\ total_water_level(sim_call.before.mesh) > 0

\* C19: once a RainFlow has been built, in every state that simulate and
\* fix_cyclic_flow calls lead to, every interior cell's downhill_neighbor is
\* a cell of the mesh and every sink cell's nearest_river_node_index is an
\* index of river_state, so that no step_cell call fails.
C19_SteppingNeverFails ==
    rf_status = "ready" =>
        \A c \in DOMAIN mesh :
            IF mesh[c].nearest_river_node_index = NoIndex
            THEN mesh[c].downhill_neighbor \in DOMAIN mesh
            ELSE mesh[c].nearest_river_node_index \in DOMAIN initial_state

\* Rounds have been stepped on a mesh with an interior cell, a sink of
\* setup and a cell that fix_cyclic_flow cut off.
C19_Witness ==
    /\ rf_status = "ready" /\ rounds > 0
    /\ \E c \in DOMAIN mesh : mesh[c].nearest_river_node_index = NoIndex
    /\ \E c \in DOMAIN mesh :
          /\ mesh[c].sink_cell
          /\ get_containing_face(terrain, << c[1] + terrain[c].dir[1],
                                             c[2] + terrain[c].dir[2] >>) = "face"
    /\ \E c \in DOMAIN mesh :
          /\ mesh[c].sink_cell
          /\ get_containing_face(terrain, << c[1] + terrain[c].dir[1],
                                             c[2] + terrain[c].dir[2] >>) # "face"

(***************************************************************************)
(* SpecBare: the RainFlow class of Object.py, a rain mesh without a river. *)
(* The normals of the file have x and y components in {-1, 0, 1}, so that  *)
(* a cell's downhill point is a lattice point; a lattice point outside     *)
(* every face, or on a boundary, ends setup with an error.                 *)
(***************************************************************************)
BareRainfallRate == 1

BareCell(p, neighbor) ==
    [current_water_level |-> BareRainfallRate, next_water_level |-> 0,
     downhill_neighbor |-> neighbor]

\* RainFlow.setup from the k-th lattice point on: the mesh, or the error
\* raised at the first point that has no face ("next" does not skip it) or
\* whose lookup raises.
RECURSIVE BareSetupFrom(_, _, _)
BareSetupFrom(t, k, cells) ==
    IF k > MeshCells THEN [status |-> "ready", mesh |-> cells]
    ELSE LET p == Point(k)
             face == get_containing_face(t, p)
             neighbor == << p[1] + t[p].dir[1], p[2] + t[p].dir[2] >>
             downhill_neighbor_face == get_containing_face(t, neighbor)
         IN  IF face = "ValueError" THEN [status |-> "ValueError", mesh |-> << >>]
             ELSE IF face = None THEN [status |-> "AttributeError", mesh |-> << >>]
             ELSE IF downhill_neighbor_face = "ValueError"
             THEN [status |-> "ValueError", mesh |-> << >>]
             ELSE BareSetupFrom(t, k + 1,
                      [q \in DOMAIN cells \cup {p} |->
                          IF q # p THEN cells[q]
                          ELSE IF downhill_neighbor_face = None
                          THEN BareCell(p, p)
                          ELSE BareCell(p, neighbor)])

bare_setup(t) == BareSetupFrom(t, 1, << >>)

\* A step_cell that adds to the neighbour's current level.
bare_step_cell_in_place(m, coordinates) ==
    [m EXCEPT ![m[coordinates].downhill_neighbor].current_water_level =
                  @ + m[coordinates].current_water_level]

\* RainFlow.step_cell (Object.py)
bare_step_cell(m, coordinates) ==
    [m EXCEPT ![m[coordinates].downhill_neighbor].next_water_level =
                  @ + m[coordinates].current_water_level]

\* RainFlow.update_water_level (Object.py), rainfall=False
bare_update_water_level(m, coordinates) ==
    [m EXCEPT ![coordinates].current_water_level = m[coordinates].next_water_level,
              ![coordinates].next_water_level = 0]

RECURSIVE BareStepPhase(_, _, _)
BareStepPhase(m, order, k) ==
    IF k > Len(order) THEN m ELSE BareStepPhase(bare_step_cell(m, order[k]), order, k + 1)

RECURSIVE BareCommitPhase(_, _, _)
BareCommitPhase(m, order, k) ==
    IF k > Len(order) THEN m
    ELSE BareCommitPhase(bare_update_water_level(m, order[k]), order, k + 1)

\* RainFlow.simulate (Object.py): steps times both loops over the mesh
RECURSIVE bare_simulate(_, _)
bare_simulate(m, steps) ==
    IF steps = 0 THEN m
    ELSE LET order == CellOrder(m) IN
         bare_simulate(BareCommitPhase(BareStepPhase(m, order, 1), order, 1), steps - 1)

InitBare ==
    /\ RfUnused /\ OrderUnused /\ ModelUnused /\ GraphUnused
    /\ ObjUnused /\ NearUnused /\ SimUnused /\ ConUnused
    /\ bare_terrain \in Terrains
    /\ bare_mesh = << >>
    /\ bare_status = "none"
    /\ bare_steps = 0

\* RainFlow(obj_file, mesh_size, rainfall_rate) of Object.py
NewBareRainFlow ==
    /\ bare_status = "none"
    /\ LET built == bare_setup(bare_terrain) IN
        /\ bare_status' = built.status
        /\ bare_mesh' = built.mesh
    /\ UNCHANGED << bare_terrain, bare_steps >>
    /\ UNCHANGED << rfVars, orderVars, modelVars, graphVars, objVars, nearVars, simVars, conVars >>

BareSimulate(steps) ==
    /\ bare_status = "ready"
    /\ bare_steps + steps <= MaxRounds
    /\ bare_mesh' = bare_simulate(bare_mesh, steps)
    /\ bare_steps' = bare_steps + steps
    /\ UNCHANGED << bare_terrain, bare_status >>
    /\ UNCHANGED << rfVars, orderVars, modelVars, graphVars, objVars, nearVars, simVars, conVars >>

NextBare ==
    \/ NewBareRainFlow
    \/ \E steps \in 1..MaxSteps : BareSimulate(steps)

SpecBare == InitBare /\ [][NextBare]_vars

\* the cell that c's water has reached after n steps
RECURSIVE BareDownstream(_, _)
BareDownstream(c, n) ==
    IF n = 0 THEN c ELSE bare_mesh[BareDownstream(c, n - 1)].downhill_neighbor

BareSink(c) == bare_mesh[c].downhill_neighbor = c

\* every downhill chain ends at a cell that keeps its water
BareAcyclic == \A c \in DOMAIN bare_mesh : BareSink(BareDownstream(c, MeshCells))

BareChainLength(c) ==
    CHOOSE n \in 0..MeshCells :
        /\ BareSink(BareDownstream(c, n))
        /\ \A k \in 0 .. n - 1 : ~BareSink(BareDownstream(c, k))

SpecRiverFair == SpecRiver /\ WF_vars(NextRiver)

AdjacencyEntries ==
    Cardinality({ e \in Vertices(vertices_count) \X Vertices(vertices_count) :
                    adjacency_matrix_inner_vertices[e[1]][e[2]] })

\* C26: the traversal ends, whatever the symmetric adjacency, and never
\* pops more vertices than the adjacency matrix has true entries, plus one.
C26_TraversalTerminates ==
    /\ [](graph_pc = "loop" => pops <= AdjacencyEntries + 1)
    /\ <>(graph_pc = "done")

\* The traversal has ended after popping some vertex twice.
C26_Witness ==
    /\ graph_pc = "done"
    /\ pops > Cardinality({ v \in Vertices(vertices_count) : visited[v] })

\* C30: the head has no outgoing edge; every other vertex that the head
\* reaches through the adjacency has an outgoing edge and a directed path
\* to the head; every directed edge joins adjacent vertices; so the only
\* all-false row among the vertices the head reaches is the head's.
C30_RootedAtHead ==
    graph_pc = "done" =>
        /\ OutDegree(head_vertex) = 0
        /\ \A v \in ReachableFrom({head_vertex}) \ {head_vertex} :
              OutDegree(v) >= 1 /\ head_vertex \in DownstreamOf({v})
        /\ \A u, v \in Vertices(vertices_count) :
              directed_graph[u][v] => adjacency_matrix_inner_vertices[u][v]
        /\ ZeroRows \cap ReachableFrom({head_vertex}) = {head_vertex}

\* The traversal has ended over an adjacency with a vertex the head does
\* not reach and a vertex two hops away from the head.
C30_Witness ==
    /\ graph_pc = "done"
    /\ ~AdjacencyConnected
    /\ \E v \in ReachableFrom({head_vertex}) \ {head_vertex} :
          ~adjacency_matrix_inner_vertices[head_vertex][v]

(***************************************************************************)
(* Claims about step_cells rounds (SpecSimulate).                          *)
(***************************************************************************)
\* the water that the interior cells pointing at c held
UphillWater(m, c) ==
    SumOver([d \in DOMAIN m |->
                IF m[d].nearest_river_node_index = NoIndex /\ m[d].downhill_neighbor = c
                THEN m[d].current_water_level ELSE 0],
            DOMAIN m)

\* C22: after a step_cells round every cell's pending level is 0, its
\* current level is the sum of the levels that the interior cells pointing
\* at it held before the round, and every river node has gained the sum of
\* the levels that the sink cells assigned to it held before the round.
C22_RoundResult ==
    (sim_call.steps # NoIndex /\ sim_call.rounds = 1) =>
        /\ \A c \in DOMAIN mesh :
              /\ mesh[c].next_water_level = 0
              /\ mesh[c].current_water_level = UphillWater(sim_call.before.mesh, c)
        /\ \A i \in RiverNodes :
              initial_state[i] =
                  sim_call.before.river_state[i] + SinkWater(sim_call.before.mesh, i)

\* A round has moved water from an interior cell to its neighbour and from
\* a sink into the river, and has left a cell without uphill cell dry.
C22_Witness ==
    /\ sim_call.steps # NoIndex /\ sim_call.rounds = 1
    /\ \E c \in DOMAIN mesh : mesh[c].current_water_level > 0
    /\ \E c \in DOMAIN mesh :
          mesh[c].current_water_level = 0 /\ sim_call.before.mesh[c].current_water_level > 0
    /\ \E i \in RiverNodes : initial_state[i] > sim_call.before.river_state[i]

\* C27: across the rounds of a simulate call the water on the mesh plus the
\* river state is unchanged, and the mesh total never grows: it falls by what
\* the river state gains.
C27_WaterConserved ==
    sim_call.steps # NoIndex =>
        /\ total_water_level(mesh) + SumOver(initial_state, RiverNodes) =
              total_water_level(sim_call.before.mesh)
                  + SumOver(sim_call.before.river_state, RiverNodes)
        /\ total_water_level(mesh) <= total_water_level(sim_call.before.mesh)

\* A call of two rounds that moved water into the river and left water on
\* the mesh.
C27_Witness ==
    /\ sim_call.steps # NoIndex /\ sim_call.rounds = 2
    /\ total_water_level(mesh) > 0
    /\ total_water_level(mesh) < total_water_level(sim_call.before.mesh)

(***************************************************************************)
(* SpecConstruct: RainFlow objects built one after the other over the      *)
(* terrain, each constructor call recorded with its rainfall_rate argument *)
(* and the mesh that its setup() made.                                     *)
(***************************************************************************)
InitConstruct ==
    /\ terrain \in Terrains
    /\ mesh = <<>> /\ rf_status = "none"
    /\ dcp_path = {} /\ ptr_path = {}
    /\ initial_state = InitialState
    /\ river_state_ref = "initial_state"
    /\ instances = 0 /\ rounds = 0 /\ last = "init"
    /\ river_at_build = InitialState
    /\ construct_call = [rainfall_rate |-> NoIndex, setup |-> << >>]
    /\ OrderUnused /\ ModelUnused /\ GraphUnused
    /\ ObjUnused /\ NearUnused /\ BareUnused /\ SimUnused

\* RainFlow(terrain, mesh_size, rate, river)
Construct(rate) ==
    /\ instances < MaxInstances
    /\ LET made == setup(terrain)
           r == fix_cyclic_flow(made, dcp_path, ptr_path)
       IN  /\ mesh' = IF r.ok THEN r.mesh ELSE <<>>
           /\ rf_status' = IF r.ok THEN "ready" ELSE "RecursionError"
           /\ dcp_path' = r.dcp_path
           /\ ptr_path' = r.ptr_path
           /\ construct_call' = [rainfall_rate |-> rate, setup |-> made]
    /\ river_state_ref' = "initial_state"
    /\ river_at_build' = initial_state
    /\ instances' = instances + 1
    /\ rounds' = 0
    /\ last' = "construct"
    /\ UNCHANGED << terrain, initial_state, orderVars, modelVars, graphVars,
                    objVars, nearVars, bareVars, simVars >>

NextConstruct == \E rate \in RainfallRates : Construct(rate)

SpecConstruct == InitConstruct /\ [][NextConstruct]_vars

\* the point a lattice point's rounded downhill direction leads to
Candidate(p) == << p[1] + terrain[p].dir[1], p[2] + terrain[p].dir[2] >>

InsideFace(p) == p \in Lattice /\ terrain[p].kind = "face"

\* C23: a boundary error of get_containing_face never aborts setup: the mesh
\* has a cell exactly at the lattice points inside a face; a cell whose
\* downhill candidate is on a boundary or in no face is a sink cell with a
\* river node index, every other cell is an interior cell that points at its
\* candidate.
C23_BoundaryErrorsHandled ==
    construct_call.rainfall_rate # NoIndex =>
        /\ rf_status \in {"ready", "RecursionError"}
        /\ DOMAIN construct_call.setup = { p \in Lattice : InsideFace(p) }
        /\ \A p \in DOMAIN construct_call.setup :
              LET cell == construct_call.setup[p] IN
              IF InsideFace(Candidate(p))
              THEN /\ ~cell.sink_cell
                   /\ cell.downhill_neighbor = Candidate(p)
                   /\ cell.nearest_river_node_index = NoIndex
              ELSE /\ cell.sink_cell
                   /\ cell.downhill_neighbor = NoNeighbor
                   /\ cell.nearest_river_node_index \in RiverNodes

\* A terrain with a lattice point on a boundary, a cell whose candidate is
\* that point and a cell that points at another cell.
C23_Witness ==
    /\ construct_call.rainfall_rate # NoIndex
    /\ \E p \in Lattice : terrain[p].kind = "edge"
    /\ \E p \in DOMAIN construct_call.setup :
          /\ Candidate(p) \in Lattice
          /\ terrain[Candidate(p)].kind = "edge"
          /\ construct_call.setup[p].sink_cell
    /\ \E p \in DOMAIN construct_call.setup : ~construct_call.setup[p].sink_cell

\* C25: after setup every cell holds the rainfall_rate argument of the
\* constructor as its current level and 0 as its pending level.
C25_CellsHoldRainfallRateArgument ==
    construct_call.rainfall_rate # NoIndex =>
        \A p \in DOMAIN construct_call.setup :
            /\ construct_call.setup[p].current_water_level = construct_call.rainfall_rate
            /\ construct_call.setup[p].next_water_level = 0

\* C28: a RainFlow built after other RainFlow objects has the sink cells and
\* downhill pointers of a RainFlow built first over the same terrain.
C28_IndependentOfEarlierInstances ==
    (rf_status = "ready" /\ last = "construct") =>
        mesh = fix_cyclic_flow(setup(terrain), {}, {}).mesh

\* C29: river.initial_state is never changed by simulate calls.
C29_InitialStateNeverModified ==
    rf_status = "ready" => initial_state = InitialState

\* the cell k downhill hops after c, NoNeighbor once a sink cell has been met
RECURSIVE After(_, _, _)
After(m, c, k) ==
    IF k = 0 \/ c = NoNeighbor THEN c
    ELSE After(m, m[c].downhill_neighbor, k - 1)

OnCycle(m, c) ==
    c # NoNeighbor /\ \E k \in 1..Cardinality(DOMAIN m) : After(m, c, k) = c

CycleOf(m, c) == { After(m, c, k) : k \in 1..Cardinality(DOMAIN m) }

\* the first cell on the walk from s that lies on a cycle
ReEntryPoint(m, s) ==
    LET k == CHOOSE i \in 0..Cardinality(DOMAIN m) :
                 /\ OnCycle(m, After(m, s, i))
                 /\ \A j \in 0..(i - 1) : ~OnCycle(m, After(m, s, j))
    IN  After(m, s, k)

\* the first cell in mesh order whose walk leads into the cycle of c
FirstStartInto(m, c) ==
    LET order == CellOrder(m)
        leads(i) == \E k \in 0..Cardinality(DOMAIN m) : After(m, order[i], k) = c
        first == CHOOSE i \in 1..Len(order) :
                     leads(i) /\ \A j \in 1..(i - 1) : ~leads(j)
    IN  order[first]

\* C21: the cells that the constructor's fix_cyclic_flow turned into sinks
\* each lay on a cycle of downhill pointers, one cell per cycle: the point
\* where the walk from the first start cell leading into the cycle re-enters
\* its own path.  No cell whose chain reached a sink was converted.
C21_OneCellPerCycle ==
    (rf_status = "ready" /\ last = "construct") =>
        LET made == setup(terrain)
            converted == { c \in DOMAIN mesh : mesh[c].sink_cell /\ ~made[c].sink_cell }
        IN  /\ \A c \in converted :
                  /\ OnCycle(made, c)
                  /\ c = ReEntryPoint(made, FirstStartInto(made, c))
            /\ \A c \in DOMAIN made :
                  OnCycle(made, c) => Cardinality(converted \cap CycleOf(made, c)) = 1

(***************************************************************************)
(* SpecRiverFile: a River built from an .obj file.  River.unpack parses    *)
(* the file as Object does, then construct_directed_graph builds the       *)
(* adjacency of the centerline vertices and traverses it from the head.    *)
(***************************************************************************)
\* Faces written as closed rings: the first vertex listed again at the end.
RingRecords == { FaceRecord(<< 2, 3, 4, 2 >>), FaceRecord(<< 1, 3, 4, 1 >>) }

RiverFiles == UNION { [1..n -> FaceRecords \cup RingRecords] : n \in 1..MaxFaces }

Lex3Less(a, b) ==
    \/ a[1] < b[1]
    \/ a[1] = b[1] /\ a[2] < b[2]
    \/ a[1] = b[1] /\ a[2] = b[2] /\ a[3] < b[3]

RECURSIVE SortedRows(_)
SortedRows(S) ==
    IF S = {} THEN << >>
    ELSE LET lo == CHOOSE v \in S : \A w \in S \ {v} : Lex3Less(v, w)
         IN  << lo >> \o SortedRows(S \ {lo})

\* np.unique(self.vertices[np.nonzero(self.vertices[:, 2] > 1e-6)], axis=0),
\* indexed from 0
unique_inner_vertices(vertices) ==
    LET rows == SortedRows({ vertices[k] : k \in { n \in DOMAIN vertices : vertices[n][3] > 0 } })
    IN  [i \in 0 .. Len(rows) - 1 |-> rows[i + 1]]

\* get_adjacent_vertices(vertex_, face_): the vertices before and after the
\* first row of face_.vertices equal to vertex_; nothing when there is none.
get_adjacent_vertices(vertex_, face_) ==
    LET rows == { k \in DOMAIN face_.vertices : face_.vertices[k] = vertex_ } IN
    IF rows = {} THEN << >>
    ELSE LET index == MinOf(rows) - 1
             before == PyIndex(face_.vertices, index - 1)
             after == PyIndex(face_.vertices, index + 1)
         IN  << before.value,
                IF after.ok THEN after.value ELSE face_.vertices[1] >>

\* River._construct_adjacency_inner_vertices
construct_adjacency_inner_vertices(fs, inner) ==
    [u \in DOMAIN inner |->
        [w \in DOMAIN inner |->
            \E f \in get_member_faces(fs, inner[u]) :
                LET adjacent == get_adjacent_vertices(inner[u], fs[f + 1]) IN
                \E k \in DOMAIN adjacent :
                    /\ adjacent[k][3] > 0
                    /\ adjacent[k] # inner[u]
                    /\ adjacent[k] = inner[w]]]

\* self.inner_vertices[:, 2].argmax(): the first row of maximum z
argmax_z(inner) ==
    MinOf({ i \in DOMAIN inner : \A j \in DOMAIN inner : inner[j][3] <= inner[i][3] })

InitRiverFile ==
    /\ RfUnused /\ OrderUnused /\ ModelUnused /\ GraphUnused
    /\ NearUnused /\ BareUnused /\ SimUnused /\ ConUnused
    /\ obj_file \in RiverFiles
    /\ obj_status = "none"
    /\ faces = << >>
    /\ adjacency_matrix = << >>
    /\ obj_query = [op |-> "none", arg |-> << >>, result |-> None]

\* River(obj_file), up to the loop of construct_directed_graph
NewRiver ==
    /\ obj_status = "none"
    /\ LET parsed == parse_file(obj_file)
           inner == unique_inner_vertices(FileVertices)
       IN  IF parsed.ok
           THEN /\ obj_status' = "ready"
                /\ faces' = parsed.faces
                /\ adjacency_matrix' = construct_adjacency(parsed.faces)
                /\ vertices_count' = Cardinality(DOMAIN inner)
                /\ adjacency_matrix_inner_vertices' =
                       construct_adjacency_inner_vertices(parsed.faces, inner)
                /\ head_vertex' = argmax_z(inner)
                /\ directed_graph' = [u \in DOMAIN inner |-> [w \in DOMAIN inner |-> FALSE]]
                /\ vertex_queue' = << argmax_z(inner) >>
                /\ visited' = [v \in DOMAIN inner |-> FALSE]
                /\ graph_pc' = "loop"
           ELSE /\ obj_status' = "IndexError"
                /\ UNCHANGED << faces, adjacency_matrix, vertices_count,
                                adjacency_matrix_inner_vertices, head_vertex,
                                directed_graph, vertex_queue, visited, graph_pc >>
    /\ UNCHANGED << obj_file, obj_query, pops >>
    /\ UNCHANGED << rfVars, orderVars, modelVars, nearVars, bareVars, simVars, conVars >>

NextRiverFile == NewRiver \/ TraverseVertex \/ ReturnRiver

SpecRiverFile == InitRiverFile /\ [][NextRiverFile]_vars

\* two rows of a face that follow each other, the last and the first included
ConsecutiveInFace(face, a, b) ==
    LET n == Len(face.vertices) IN
    \E k \in 1..n :
        \/ face.vertices[k] = a /\ face.vertices[(k % n) + 1] = b
        \/ face.vertices[k] = b /\ face.vertices[(k % n) + 1] = a

\* C24: the adjacency matrix of the centerline vertices is symmetric and
\* irreflexive, and entry [u][v] is true exactly when u and v are distinct
\* centerline vertices that follow each other in some face, the last and
\* the first vertex of a face included.
C24_ConsecutiveInSomeFace ==
    graph_pc \in {"loop", "done"} =>
        LET inner == unique_inner_vertices(FileVertices) IN
        \A u, v \in Vertices(vertices_count) :
            /\ adjacency_matrix_inner_vertices[u][v] = adjacency_matrix_inner_vertices[v][u]
            /\ ~adjacency_matrix_inner_vertices[u][u]
            /\ adjacency_matrix_inner_vertices[u][v] <=>
                  (u # v /\ \E k \in DOMAIN faces : ConsecutiveInFace(faces[k], inner[u], inner[v]))

====
